---- MODULE Spec2Model ----
(***************************************************************************)
(* Model of ocr_app.py (PDF OCR System Pro): the OCR invoker               *)
(* extract_text_from_pdf, the History Store (SQLite table "extractions")   *)
(* and the Streamlit script runs of the Single PDF, Batch Processing and   *)
(* History modes.  Texts are sequences of one-character strings.           *)
(***************************************************************************)
EXTENDS Integers, Sequences, FiniteSets, TLC

(***************************************************************************)
(* Bounds of the model.                                                    *)
(***************************************************************************)
MaxPages == 3
AppMaxPages == 1
MaxFiles == 2
MaxSaves == 2
MaxTick == 1
MaxScoreChunks == 3
MaxSearchLen == 4
MaxQueryLen == 2
MaxDetectChunks == 3

(***************************************************************************)
(* Program constants.                                                      *)
(***************************************************************************)
BannerWidth == 60

VARIABLES
    x_pc,            \* extract_text_from_pdf call: "start" or "done"
    x_doc,           \* its document argument (what the rasterizer and the engine do with it)
    x_engine,        \* whether the OCR engine is available during the call
    x_enhance,       \* its enhance argument
    x_denoise,       \* its denoise argument
    x_failAt,        \* which transformation of preprocess_image raises (0: none)
    x_result,        \* its returned triple (extracted_text, page count, error)
    current_text,    \* st.session_state.current_text
    processing_stats,\* st.session_state.processing_stats
    db_conn,         \* init_database returned a connection (FALSE: None)
    rows,            \* table extractions: the set of stored records
    seq,             \* sqlite_sequence of the AUTOINCREMENT key: largest id ever assigned
    records,         \* result of the last History list query
    confirm,         \* widget state of the confirmation checkbox after the last run
    batch,           \* locals of the last Process All run (results, errors, order)
    last,            \* what the last script run did
    audit,           \* the ids assigned by saves, in order; how many failed saves kept their row; how many rows were deleted
    fn_call,         \* the last call of a pure function: its name and arguments
    fn_result,       \* what that call returned
    mode,            \* the sidebar's mode radio
    uploaded_file,   \* the value of the Single PDF mode's file uploader (NoFile: None)
    edited_text,     \* the value of the preview text area, when it is rendered
    panel            \* what the last run's Results panel did

vars == <<x_pc, x_doc, x_engine, x_enhance, x_denoise, x_failAt, x_result,
          current_text, processing_stats, db_conn, rows, seq, records,
          confirm, batch, last, audit,
          fn_call, fn_result, mode, uploaded_file, edited_text, panel>>

fn_vars == <<fn_call, fn_result>>
ui_vars == <<mode, uploaded_file, edited_text, panel>>

x_vars == <<x_pc, x_doc, x_engine, x_enhance, x_denoise, x_failAt, x_result>>
app_vars == <<current_text, processing_stats, db_conn, rows, seq, records,
              confirm, batch, last, audit>>

(***************************************************************************)
(* Characters and strings.                                                 *)
(***************************************************************************)
NL == "\n"

Max(a, b) == IF a > b THEN a ELSE b
Min(a, b) == IF a < b THEN a ELSE b

Rep(c, n) == [i \in 1..n |-> c]

\* the characters of the model's alphabet on which str.isspace() and
\* str.isalnum() hold
SpaceChars == {" ", "\n", "\t"}

UpperLetters == <<"A", "B", "C", "D", "E", "F", "G", "H", "I", "J", "K", "L",
                  "M", "N", "O", "P", "Q", "R", "S", "T", "U", "V", "W", "X",
                  "Y", "Z">>

LowerLetters == <<"a", "b", "c", "d", "e", "f", "g", "h", "i", "j", "k", "l",
                  "m", "n", "o", "p", "q", "r", "s", "t", "u", "v", "w", "x",
                  "y", "z">>

DigitChars == {"0", "1", "2", "3", "4", "5", "6", "7", "8", "9"}

AlnumChars ==
    {UpperLetters[i] : i \in 1..Len(UpperLetters)}
    \cup {LowerLetters[i] : i \in 1..Len(LowerLetters)}
    \cup DigitChars

IsSpace(c) == c \in SpaceChars

IsAlnum(c) == c \in AlnumChars

DigitChar(d) == <<"0", "1", "2", "3", "4", "5", "6", "7", "8", "9">>[d + 1]

\* str.lower() of one character
Lower(c) ==
    IF \E i \in 1..Len(UpperLetters) : UpperLetters[i] = c
    THEN LowerLetters[CHOOSE i \in 1..Len(UpperLetters) : UpperLetters[i] = c]
    ELSE c

\* str.lower()
LowerStr(s) == [i \in 1..Len(s) |-> Lower(s[i])]

\* sub in s
Contains(sub, s) ==
    \E k \in 0..(Len(s) - Len(sub)) : SubSeq(s, k + 1, k + Len(sub)) = sub

\* str(n) of a non-negative integer, as in the f-string {idx + 1}
RECURSIVE Str(_)
Str(n) == IF n < 10 THEN <<DigitChar(n)>>
          ELSE Str(n \div 10) \o <<DigitChar(n % 10)>>

RECURSIVE LStrip(_)
LStrip(s) == IF s # <<>> /\ IsSpace(Head(s)) THEN LStrip(Tail(s)) ELSE s

RECURSIVE RStrip(_)
RStrip(s) == IF s # <<>> /\ IsSpace(s[Len(s)])
             THEN RStrip(SubSeq(s, 1, Len(s) - 1)) ELSE s

\* str.strip()
Strip(s) == RStrip(LStrip(s))

\* len(text.split()): the number of maximal runs of non-whitespace characters
WordCount(s) ==
    Cardinality({i \in 1..Len(s) :
                   /\ ~IsSpace(s[i])
                   /\ (i = 1 \/ IsSpace(s[i - 1]))})

\* sum(len(w) for w in text.split())
WordChars(s) == Cardinality({i \in 1..Len(s) : ~IsSpace(s[i])})

\* the k-th smallest element of a set of integers
Kth(S, k) == CHOOSE i \in S : Cardinality({j \in S : j < i}) = k - 1

\* text.split('\n'): the pieces between consecutive newlines
SplitLines(s) ==
    LET P == {i \in 1..Len(s) : s[i] = NL}
        n == Cardinality(P)
        from(k) == IF k = 1 THEN 1 ELSE Kth(P, k - 1) + 1
        to(k) == IF k = n + 1 THEN Len(s) ELSE Kth(P, k) - 1
    IN  [k \in 1..(n + 1) |-> SubSeq(s, from(k), to(k))]

(***************************************************************************)
(* calculate_quality_score.  The float comparisons are on ratios of small  *)
(* integers and are translated to exact integer comparisons.               *)
(***************************************************************************)
\* the score with a deduction of 60 for a short text and no clamp
calculate_quality_score_Deducts60(text) ==
    LET d1 == IF Len(Strip(text)) < 10 THEN 60 ELSE 0
        good == Cardinality({i \in 1..Len(text) :
                               IsAlnum(text[i]) \/ IsSpace(text[i])})
        d2 == IF 10 * good < 7 * Max(Len(text), 1) THEN 30 ELSE 0
        words == WordCount(text)
        d3 == IF words > 0 /\ (WordChars(text) < 2 * words
                               \/ WordChars(text) > 15 * words)
              THEN 20 ELSE 0
    IN  100 - d1 - d2 - d3

\* the score with the three tests chained by elif: only the first deduction
\* that applies is made
calculate_quality_score_Exclusive(text) ==
    LET good == Cardinality({i \in 1..Len(text) :
                               IsAlnum(text[i]) \/ IsSpace(text[i])})
        words == WordCount(text)
    IN  IF Len(Strip(text)) < 10 THEN 50
        ELSE IF 10 * good < 7 * Max(Len(text), 1) THEN 70
        ELSE IF words > 0 /\ (WordChars(text) < 2 * words
                              \/ WordChars(text) > 15 * words) THEN 80
        ELSE 100

calculate_quality_score(text) ==
    LET d1 == IF Len(Strip(text)) < 10 THEN 50 ELSE 0
        good == Cardinality({i \in 1..Len(text) :
                               IsAlnum(text[i]) \/ IsSpace(text[i])})
        d2 == IF 10 * good < 7 * Max(Len(text), 1) THEN 30 ELSE 0
        words == WordCount(text)
        d3 == IF words > 0 /\ (WordChars(text) < 2 * words
                               \/ WordChars(text) > 15 * words)
              THEN 20 ELSE 0
        score == 100 - d1 - d2 - d3
    IN  Max(0, Min(100, score))

(***************************************************************************)
(* Documents.  A document is what the external collaborators do with the   *)
(* uploaded bytes: convert_from_bytes either raises (with a message) or    *)
(* returns one image per page, and the engine either raises on a page or   *)
(* returns its text.                                                       *)
(***************************************************************************)
RecFail == <<"<recognition fails>">>

T_blank == <<>>
T_word == <<" ", "a", "b", "\n">>
T_lines == <<"#", "\n", "c", " ">>

PageTexts == {T_blank, T_word, T_lines}
PageOutcomes == PageTexts \cup {RecFail}

\* longer page texts: five two-letter words, 134 one-letter words and 90
\* two-letter words
T_words == [i \in 1..15 |-> <<"a", "b", " ">>[((i - 1) % 3) + 1]]
T_letters == [i \in 1..268 |-> <<"a", " ">>[((i - 1) % 2) + 1]]
T_prose == [i \in 1..270 |-> <<"a", "b", " ">>[((i - 1) % 3) + 1]]

LongPageTexts == {T_words, T_letters, T_prose}
AppPageOutcomes == {T_word}

\* str(e) of the exception raised by the rasterizer; MemoryError() has str(e) = ""
Messages == {"", "Unable to get page count."}

\* str(e) of the exception raised by reading an uploaded file
ReadMessages == {""}

\* the sequences of 1 to n elements of S
SeqsUpTo(S, n) == UNION {[1..k -> S] : k \in 1..n}

Docs(outcomes, maxp) ==
    {[raster |-> "fail", msg |-> m, pages |-> <<>>] : m \in Messages}
    \cup {[raster |-> "ok", msg |-> "", pages |-> p] : p \in SeqsUpTo(outcomes, maxp)}

None == [isNone |-> TRUE, msg |-> ""]
ErrorOf(m) == [isNone |-> FALSE, msg |-> m]

\* Python truth value of the error returned by extract_text_from_pdf
Truthy(error) == ~error.isNone /\ error.msg # ""

(***************************************************************************)
(* preprocess_image: the image records the transformations applied to it.  *)
(* failAt = k > 0 makes the k-th transformation raise.                     *)
(***************************************************************************)
RECURSIVE ApplyOps(_, _, _, _)
ApplyOps(image, ops, k, failAt) ==
    IF ops = <<>> \/ k = failAt THEN image
    ELSE ApplyOps([image EXCEPT !.ops = Append(@, Head(ops))], Tail(ops), k + 1, failAt)

\* preprocess_image whose except returns the image it was given
preprocess_image_DiscardsOnFailure(image, enhance, denoise, failAt) ==
    IF enhance /\ failAt \in 1..(IF denoise THEN 4 ELSE 3)
    THEN image
    ELSE IF enhance
    THEN ApplyOps(image,
                  <<"L", "contrast2.0", "sharpness1.5">>
                     \o (IF denoise THEN <<"median3">> ELSE <<>>),
                  1, failAt)
    ELSE image

preprocess_image(image, enhance, denoise, failAt) ==
    IF enhance
    THEN ApplyOps(image,
                  <<"L", "contrast2.0", "sharpness1.5">>
                     \o (IF denoise THEN <<"median3">> ELSE <<>>),
                  1, failAt)
    ELSE image

(***************************************************************************)
(* extract_text_from_pdf                                                   *)
(***************************************************************************)
\* a banner without its two rules of '=' characters
Banner_NoRules(idx) ==
    <<NL>> \o <<"P", "A", "G", "E", " ">> \o Str(idx + 1) \o <<NL, NL>>

Banner(idx) ==
    <<NL>> \o Rep("=", BannerWidth) \o <<NL>>
    \o <<"P", "A", "G", "E", " ">> \o Str(idx + 1) \o <<NL>>
    \o Rep("=", BannerWidth) \o <<NL, NL>>

ErrorBanner(idx) ==
    <<NL>> \o Rep("=", BannerWidth) \o <<NL>>
    \o <<"P", "A", "G", "E", " ">> \o Str(idx + 1)
    \o <<" ", "-", " ", "E", "R", "R", "O", "R">> \o <<NL>>
    \o Rep("=", BannerWidth) \o <<NL, NL>>

\* pytesseract.image_to_string: raises when the engine is unavailable or the
\* recognition of this page fails
image_to_string(image, engine) ==
    IF ~engine \/ image.content = RecFail
    THEN [raised |-> TRUE, text |-> <<>>]
    ELSE [raised |-> FALSE, text |-> image.content]

\* PageStep with the except branch reduced to "pass": a failed page leaves no banner
PageStep_SilentFailure(extracted_text, idx, image0, engine, enhance, denoise, failAt) ==
    LET image == IF enhance THEN preprocess_image(image0, TRUE, denoise, failAt)
                 ELSE image0
        r == image_to_string(image, engine)
    IN  IF r.raised
        THEN extracted_text
        ELSE extracted_text \o Banner(idx) \o Strip(r.text) \o <<NL, NL>>

\* the body of the loop over enumerate(images)
PageStep(extracted_text, idx, image0, engine, enhance, denoise, failAt) ==
    LET image == IF enhance THEN preprocess_image(image0, TRUE, denoise, failAt)
                 ELSE image0
        r == image_to_string(image, engine)
    IN  IF r.raised
        THEN extracted_text \o ErrorBanner(idx)
        ELSE extracted_text \o Banner(idx) \o Strip(r.text) \o <<NL, NL>>

RECURSIVE PageLoop(_, _, _, _, _, _, _)
PageLoop(extracted_text, idx, images, engine, enhance, denoise, failAt) ==
    IF idx >= Len(images) THEN extracted_text
    ELSE PageLoop(PageStep(extracted_text, idx, images[idx + 1], engine,
                           enhance, denoise, failAt),
                  idx + 1, images, engine, enhance, denoise, failAt)

\* convert_from_bytes: one image per page
convert_from_bytes(doc) ==
    [i \in 1..Len(doc.pages) |-> [content |-> doc.pages[i], ops |-> <<>>]]

\* extract_text_from_pdf whose outer except returns None as the error
extract_text_from_pdf_NoError(doc, engine, enhance, denoise, failAt) ==
    IF doc.raster = "fail"
    THEN [text |-> <<>>, pages |-> 0, error |-> None]
    ELSE LET images == convert_from_bytes(doc)
         IN  [text |-> PageLoop(<<>>, 0, images, engine, enhance, denoise, failAt),
              pages |-> Len(images),
              error |-> None]

extract_text_from_pdf(doc, engine, enhance, denoise, failAt) ==
    IF doc.raster = "fail"
    THEN [text |-> <<>>, pages |-> 0, error |-> ErrorOf(doc.msg)]
    ELSE LET images == convert_from_bytes(doc)
         IN  [text |-> PageLoop(<<>>, 0, images, engine, enhance, denoise, failAt),
              pages |-> Len(images),
              error |-> None]

(***************************************************************************)
(* History Store: the table extractions of ocr_history.db, reached through *)
(* the one shared connection db_conn.                                      *)
(***************************************************************************)
Names == {"a.pdf", "b.pdf"}
Languages == {"eng"}
Ticks == 0..MaxTick

\* what the storage does with a statement: it succeeds, the statement
\* raises, or the statement runs and the commit after it raises (the change
\* then stays in the connection's open transaction, visible to its queries)
Storage == {"ok", "exec_fail", "commit_fail"}

\* datetime.now().isoformat(): a clock reading t is t half seconds into the
\* minute; the fraction is omitted when the microsecond is 0.  The date,
\* hour and minute, equal in all readings, are left out.
isoformat(t) ==
    LET sec == t \div 2
        usec == (t % 2) * 500000
        pow == <<100000, 10000, 1000, 100, 10, 1>>
    IN  <<DigitChar(sec \div 10), DigitChar(sec % 10)>>
        \o (IF usec = 0 THEN <<>>
            ELSE <<".">> \o [i \in 1..6 |-> DigitChar((usec \div pow[i]) % 10)])

CodePoint(c) == IF c = "." THEN 46 ELSE 48 + (CHOOSE d \in 0..9 : DigitChar(d) = c)

\* a < b for TEXT values under SQLite's BINARY collation
TextLess(a, b) ==
    \E i \in 1..(Min(Len(a), Len(b)) + 1) :
        /\ \A j \in 1..(i - 1) : a[j] = b[j]
        /\ \/ i > Len(a) /\ i <= Len(b)
           \/ i <= Len(a) /\ i <= Len(b) /\ CodePoint(a[i]) < CodePoint(b[i])

MaxId(rs) == IF rs = {} THEN 0 ELSE CHOOSE m \in {r.id : r \in rs} : \A r \in rs : r.id <= m

\* INTEGER PRIMARY KEY without AUTOINCREMENT: one more than the largest id in the table
NextId_MaxRowid(rs, sq) == MaxId(rs) + 1

\* id INTEGER PRIMARY KEY AUTOINCREMENT: one more than the largest id ever in the table
NextId(rs, sq) == Max(sq, MaxId(rs)) + 1

\* dict.get(key, default)
Get(d, k, default) == IF k \in DOMAIN d THEN d[k] ELSE default

InsertedRecord(id, filename, text, metadata, now) ==
    [id |-> id,
     filename |-> filename,
     timestamp |-> isoformat(now),
     page_count |-> Get(metadata, "page_count", 0),
     word_count |-> Get(metadata, "word_count", 0),
     character_count |-> Get(metadata, "character_count", 0),
     language |-> Get(metadata, "language", "eng"),
     extracted_text |-> text,
     processing_time |-> Get(metadata, "processing_time", 0),
     quality_score |-> Get(metadata, "quality_score", 0)]

\* the table after the INSERT of save_to_database
Inserted(tbl, id, filename, text, metadata, now) ==
    [rows |-> tbl.rows \cup {InsertedRecord(id, filename, text, metadata, now)},
     seq |-> id]

\* save_to_database without its try/except: a storage failure raises to the caller
save_to_database_Raises(tbl, filename, text, metadata, now, storage) ==
    CASE storage = "ok" ->
           [tbl |-> Inserted(tbl, NextId(tbl.rows, tbl.seq), filename, text, metadata, now),
            ret |-> "true", id |-> NextId(tbl.rows, tbl.seq)]
      [] storage = "exec_fail" -> [tbl |-> tbl, ret |-> "raised", id |-> 0]
      [] storage = "commit_fail" ->
           [tbl |-> Inserted(tbl, NextId(tbl.rows, tbl.seq), filename, text, metadata, now),
            ret |-> "raised", id |-> NextId(tbl.rows, tbl.seq)]

\* save_to_database: ret is what the caller sees ("true", "false", or "raised"
\* for an exception leaving the function); id is the identifier assigned (0: none)
save_to_database(tbl, filename, text, metadata, now, storage) ==
    CASE storage = "ok" ->
           [tbl |-> Inserted(tbl, NextId(tbl.rows, tbl.seq), filename, text, metadata, now),
            ret |-> "true", id |-> NextId(tbl.rows, tbl.seq)]
      [] storage = "exec_fail" -> [tbl |-> tbl, ret |-> "false", id |-> 0]
      [] storage = "commit_fail" ->
           [tbl |-> Inserted(tbl, NextId(tbl.rows, tbl.seq), filename, text, metadata, now),
            ret |-> "false", id |-> NextId(tbl.rows, tbl.seq)]

\* the columns of the History list query
ListColumns(r) ==
    [id |-> r.id, filename |-> r.filename, timestamp |-> r.timestamp,
     page_count |-> r.page_count, word_count |-> r.word_count,
     character_count |-> r.character_count, language |-> r.language,
     quality_score |-> r.quality_score]

\* ORDER BY timestamp ASC instead of DESC
ListQuery_Ascending(rs) ==
    {[i \in 1..Cardinality(rs) |-> ListColumns(f[i])] :
        f \in {g \in [1..Cardinality(rs) -> rs] :
                 /\ \A i, j \in 1..Cardinality(rs) : i # j => g[i] # g[j]
                 /\ \A i, j \in 1..Cardinality(rs) :
                       i < j => ~TextLess(g[j].timestamp, g[i].timestamp)}}

\* SELECT ... FROM extractions ORDER BY timestamp DESC: every row once, no
\* row before a row with a larger timestamp; rows with equal timestamps come
\* in an order SQL leaves open
ListQuery(rs) ==
    {[i \in 1..Cardinality(rs) |-> ListColumns(f[i])] :
        f \in {g \in [1..Cardinality(rs) -> rs] :
                 /\ \A i, j \in 1..Cardinality(rs) : i # j => g[i] # g[j]
                 /\ \A i, j \in 1..Cardinality(rs) :
                       i < j => ~TextLess(g[i].timestamp, g[j].timestamp)}}

NotFound == [id |-> 0]

\* SELECT * FROM extractions WHERE id = ? ; fetchone()
Fetch(rs, id) ==
    IF \E r \in rs : r.id = id THEN CHOOSE r \in rs : r.id = id ELSE NotFound

\* DELETE that removes every record of the selected record's file
DeleteOne_ByFilename(rs, id) ==
    {r \in rs : r.filename # Fetch(rs, id).filename}

\* DELETE FROM extractions WHERE id = ?
DeleteOne(rs, id) == {r \in rs : r.id # id}

\* DELETE FROM extractions
DeleteAll(rs) == {}

\* bookkeeping of the store's history (not program state)
Audited(a, res) ==
    IF res.id = 0 THEN a
    ELSE [a EXCEPT !.assigned = Append(@, res.id),
                   !.kept = IF res.ret = "true" THEN @ ELSE @ + 1]

(***************************************************************************)
(* One call of extract_text_from_pdf on inputs drawn from bounded sets.    *)
(***************************************************************************)
NoResult == [text |-> <<>>, pages |-> 0, error |-> None]

NoCall == [fn |-> "none"]
NoFile == [name |-> ""]
\* an export that was not produced (the writer returned None, or was not called)
NoExport == [isNone |-> TRUE]

\* the Results panel was not rendered
NoPanel == [rendered |-> FALSE, uncaught |-> FALSE, formats |-> <<>>, txt |-> <<>>,
            word |-> NoExport, json |-> NoExport, reported |-> FALSE]

\* no pure function is being called on its own
FnIdle ==
    /\ fn_call = NoCall
    /\ fn_result = <<>>

\* the uploader, the preview and the Results panel of Single PDF mode before
\* the first run
UiIdle ==
    /\ mode = "Single PDF"
    /\ uploaded_file = NoFile
    /\ edited_text = <<>>
    /\ panel = NoPanel

\* no call of extract_text_from_pdf on its own
ExtractIdle ==
    /\ x_pc = "idle"
    /\ x_doc = [raster |-> "ok", msg |-> "", pages |-> <<>>]
    /\ x_engine = TRUE
    /\ x_enhance = TRUE
    /\ x_denoise = TRUE
    /\ x_failAt = 0
    /\ x_result = NoResult

InitSession ==
    /\ current_text = <<>>
    /\ processing_stats = [k \in {} |-> 0]
    /\ rows = {}
    /\ seq = 0
    /\ records = <<>>
    /\ confirm = "absent"
    /\ batch = [ran |-> FALSE]
    /\ last = [op |-> "none"]
    /\ audit = [assigned |-> <<>>, kept |-> 0, deleted |-> 0]

ExtractInit ==
    /\ x_pc = "start"
    /\ x_doc \in Docs(PageOutcomes, MaxPages)
                \cup {[raster |-> "ok", msg |-> "", pages |-> <<t>>] : t \in LongPageTexts}
    /\ x_engine \in BOOLEAN
    /\ x_enhance \in BOOLEAN
    /\ x_denoise \in BOOLEAN
    /\ x_failAt \in 0..4
    /\ x_result = NoResult
    /\ FnIdle
    /\ UiIdle
    /\ db_conn = TRUE
    /\ InitSession

ExtractCall ==
    /\ x_pc = "start"
    /\ x_result' = extract_text_from_pdf(x_doc, x_engine, x_enhance, x_denoise, x_failAt)
    /\ x_pc' = "done"
    /\ UNCHANGED <<x_doc, x_engine, x_enhance, x_denoise, x_failAt>>
    /\ UNCHANGED app_vars
    /\ UNCHANGED <<fn_vars, ui_vars>>

\* lines 537-556: a caller records the returned text and its metadata when
\* the returned error is falsy (Single PDF mode; Batch mode computes the same
\* counts and score, lines 701-708)
RecordExtraction ==
    /\ x_pc = "done"
    /\ ~Truthy(x_result.error)
    /\ current_text' = x_result.text
    /\ processing_stats' =
          [filename |-> "a.pdf",
           page_count |-> x_result.pages,
           word_count |-> WordCount(x_result.text),
           character_count |-> Len(x_result.text),
           language |-> "eng",
           processing_time |-> 1,
           quality_score |-> calculate_quality_score(x_result.text)]
    /\ x_pc' = "recorded"
    /\ UNCHANGED <<x_doc, x_engine, x_enhance, x_denoise, x_failAt, x_result>>
    /\ UNCHANGED <<db_conn, rows, seq, records, confirm, batch, last, audit>>
    /\ UNCHANGED <<fn_vars, ui_vars>>

ExtractNext ==
    \/ ExtractCall
    \/ RecordExtraction

ExtractSpec == ExtractInit /\ [][ExtractNext]_vars

(***************************************************************************)
(* The application: every user gesture starts one run of the script, in    *)
(* the mode selected in the sidebar.                                       *)
(***************************************************************************)
AppDocs == Docs(AppPageOutcomes, AppMaxPages)

\* what reading an uploaded file and rasterizing its bytes does
Uploads ==
    {[read |-> "fail", msg |-> m, doc |-> [raster |-> "ok", msg |-> "", pages |-> <<>>]] :
        m \in ReadMessages}
    \cup {[read |-> "ok", msg |-> "", doc |-> d] : d \in AppDocs}

\* (datetime.now() - start_time).total_seconds(), as measured
Durations == {1}

\* the sidebar's preprocessing checkboxes at their defaults; the transformations
\* succeed and the engine is available (an unavailable engine gives the text
\* of a document whose every page fails, which AppDocs contains)
SidebarEnhance == TRUE
SidebarDenoise == TRUE
EngineAvailable == TRUE

\* the upload reaches the statements after the "if error" test
ReachesSave(up) ==
    up.read = "ok" /\ ~(up.doc.raster = "fail" /\ up.doc.msg # "")

\* the storage outcomes and clock readings that make a difference to a run
\* that does (or does not) reach save_to_database
StorageFor(saving) == IF saving THEN Storage ELSE {"ok"}
TicksFor(saving, storage) == IF saving /\ storage # "exec_fail" THEN Ticks ELSE {0}

Put(d, k, v) == [x \in (DOMAIN d) \cup {k} |-> IF x = k THEN v ELSE d[x]]

Table == [rows |-> rows, seq |-> seq]

\* The documents of the application are few and each is extracted in many
\* runs: the triple returned for a document and the counts and score of a
\* returned text are computed once per document and looked up in the runs.
ExtractionOf ==
    [d \in AppDocs |->
        extract_text_from_pdf(d, EngineAvailable, SidebarEnhance, SidebarDenoise, 0)]

AppTexts == {ExtractionOf[d].text : d \in AppDocs}

WordCountOf == [t \in AppTexts |-> WordCount(t)]

QualityOf == [t \in AppTexts |-> calculate_quality_score(t)]

Init ==
    /\ ExtractIdle
    /\ FnIdle
    /\ UiIdle
    /\ db_conn \in BOOLEAN
    /\ InitSession

(***************************************************************************)
(* Single PDF mode, a run started by the Extract Text button.              *)
(***************************************************************************)
\* lines 558-563: the save and the end of the handler
SingleFinish(name, up, r, metadata, saving, storage, res) ==
    [current_text |-> r.text,
     processing_stats |-> metadata,
     tbl |-> IF saving THEN res.tbl ELSE Table,
     audit |-> IF saving THEN Audited(audit, res) ELSE audit,
     last |-> [op |-> "single", name |-> name, failed |-> up.doc.raster = "fail",
               error_shown |-> FALSE,
               uncaught |-> saving /\ res.ret = "raised",
               result |-> r,
               save |-> IF saving THEN res.ret ELSE "none",
               storage |-> IF saving THEN storage ELSE "unused"]]

\* the metadata with the counts taken from the session's previous stats
SingleMetadata_StaleCounts(name, r, ocr_lang, elapsed) ==
    [filename |-> name,
     page_count |-> r.pages,
     word_count |-> Get(processing_stats, "word_count", 0),
     character_count |-> Get(processing_stats, "character_count", 0),
     language |-> ocr_lang,
     processing_time |-> elapsed,
     quality_score |-> QualityOf[r.text]]

\* lines 545-554: the metadata of an extraction
SingleMetadata(name, r, ocr_lang, elapsed) ==
    [filename |-> name,
     page_count |-> r.pages,
     word_count |-> WordCountOf[r.text],
     character_count |-> Len(r.text),
     language |-> ocr_lang,
     processing_time |-> elapsed,
     quality_score |-> QualityOf[r.text]]

\* lines 539-560: the else branch of "if error"
SingleStore(name, up, r, metadata, saving, storage, now) ==
    SingleFinish(name, up, r, metadata, saving, storage,
                 save_to_database(Table, name, r.text, metadata, now, storage))

\* lines 537-563: what the handler does with the returned triple r
SingleAfterExtract(name, up, r, ocr_lang, save_to_db, storage, now, elapsed) ==
    IF Truthy(r.error)
    THEN [current_text |-> current_text, processing_stats |-> processing_stats,
          tbl |-> Table, audit |-> audit,
          last |-> [op |-> "single", name |-> name, failed |-> up.doc.raster = "fail",
                    error_shown |-> TRUE, uncaught |-> FALSE, result |-> r,
                    save |-> "none", storage |-> "unused"]]
    ELSE SingleStore(name, up, r, SingleMetadata(name, r, ocr_lang, elapsed),
                     save_to_db /\ db_conn, storage, now)

\* the handler of the Extract Text button; uploaded_file.read() raising is an
\* uncaught exception, which ends the run
SingleScript(name, up, ocr_lang, save_to_db, storage, now, elapsed) ==
    IF up.read = "fail"
    THEN [current_text |-> current_text, processing_stats |-> processing_stats,
          tbl |-> Table, audit |-> audit,
          last |-> [op |-> "single", name |-> name, failed |-> FALSE,
                    error_shown |-> FALSE, uncaught |-> TRUE, result |-> NoResult,
                    save |-> "none", storage |-> "unused"]]
    ELSE SingleAfterExtract(name, up,
                            ExtractionOf[up.doc],
                            ocr_lang, save_to_db, storage, now, elapsed)

SingleExtract ==
    /\ Len(audit.assigned) < MaxSaves
    /\ \E name \in Names, up \in Uploads, ocr_lang \in Languages,
          save_to_db \in (IF db_conn THEN BOOLEAN ELSE {TRUE}), elapsed \in Durations :
       \E storage \in StorageFor(save_to_db /\ db_conn /\ ReachesSave(up)) :
       \E now \in TicksFor(save_to_db /\ db_conn /\ ReachesSave(up), storage) :
       \E out \in {SingleScript(name, up, ocr_lang, save_to_db, storage, now, elapsed)} :
          /\ current_text' = out.current_text
          /\ processing_stats' = out.processing_stats
          /\ rows' = out.tbl.rows
          /\ seq' = out.tbl.seq
          /\ audit' = out.audit
          /\ last' = out.last
    /\ records' = <<>>
    /\ confirm' = "absent"
    /\ batch' = [ran |-> FALSE]
    /\ UNCHANGED db_conn
    /\ UNCHANGED <<x_vars, fn_vars, ui_vars>>

(***************************************************************************)
(* Batch Processing mode, a run started by the Process All button.         *)
(***************************************************************************)
\* lines 700-709: the save of a file's extraction; an exception leaving
\* save_to_database is caught by the loop body's except
BatchSave(stored, file, res) ==
    [stored EXCEPT
        !.tbl = res.tbl,
        !.audit = Audited(@, res),
        !.saves = [@ EXCEPT ![Len(@)] = res.ret],
        !.errors = IF res.ret = "raised" THEN Put(@, file.name, "database error") ELSE @]

BatchMetadata(r, ocr_lang) ==
    [page_count |-> r.pages,
     word_count |-> WordCountOf[r.text],
     character_count |-> Len(r.text),
     language |-> ocr_lang,
     processing_time |-> 0,
     quality_score |-> QualityOf[r.text]]

\* lines 691-709: what the loop body does with the returned triple r
BatchAfterExtract(done, file, r, ocr_lang, saving, storage, now) ==
    IF Truthy(r.error)
    THEN [done EXCEPT !.errors = Put(@, file.name, r.error.msg)]
    ELSE IF ~saving
    THEN [done EXCEPT !.results = Put(@, file.name,
                                      [text |-> r.text, pages |-> r.pages,
                                       words |-> WordCountOf[r.text]])]
    ELSE BatchSave([done EXCEPT !.results = Put(@, file.name,
                                                [text |-> r.text, pages |-> r.pages,
                                                 words |-> WordCountOf[r.text]])],
                   file,
                   save_to_database(done.tbl, file.name, r.text,
                                    BatchMetadata(r, ocr_lang), now, storage))

\* the body of the loop over enumerate(uploaded_files); processed and saves
\* log the files handled and what their save returned
BatchStep(st, idx, file, ocr_lang, save_to_db, storage, now) ==
    IF file.up.read = "fail"
    THEN [st EXCEPT !.processed = Append(@, idx + 1),
                    !.saves = Append(@, "none"),
                    !.errors = Put(@, file.name, file.up.msg)]
    ELSE BatchAfterExtract([st EXCEPT !.processed = Append(@, idx + 1),
                                      !.saves = Append(@, "none")],
                           file,
                           ExtractionOf[file.up.doc],
                           ocr_lang, save_to_db /\ db_conn, storage, now)

RECURSIVE BatchLoop(_, _, _, _, _, _, _)
BatchLoop(st, idx, uploaded_files, ocr_lang, save_to_db, storages, nows) ==
    IF idx >= Len(uploaded_files) THEN st
    ELSE BatchLoop(BatchStep(st, idx, uploaded_files[idx + 1], ocr_lang,
                             save_to_db, storages[idx + 1], nows[idx + 1]),
                   idx + 1, uploaded_files, ocr_lang, save_to_db, storages, nows)

\* how a file of the batch failed: "raised" (an exception in the loop body),
\* "returned" (extract_text_from_pdf returned a document-level error) or "none"
FailureOf(file) ==
    IF file.up.read = "fail" THEN "raised"
    ELSE IF file.up.doc.raster = "fail" THEN "returned" ELSE "none"

BatchProcess ==
    \E n \in 1..MaxFiles :
      /\ Len(audit.assigned) + n <= MaxSaves
      /\ \E uploaded_files \in [1..n -> [name : Names, up : Uploads]],
            ocr_lang \in Languages, save_to_db \in (IF db_conn THEN BOOLEAN ELSE {TRUE}) :
         \E storages \in {f \in [1..n -> Storage] : \A i \in 1..n :
                             f[i] \in StorageFor(save_to_db /\ db_conn
                                                 /\ ReachesSave(uploaded_files[i].up))} :
         \E nows \in {f \in [1..n -> Ticks] : \A i \in 1..n :
                         f[i] \in TicksFor(save_to_db /\ db_conn
                                           /\ ReachesSave(uploaded_files[i].up), storages[i])} :
         \E st \in {BatchLoop([results |-> <<>>, errors |-> <<>>, processed |-> <<>>,
                                saves |-> <<>>, tbl |-> Table, audit |-> audit],
                               0, uploaded_files, ocr_lang, save_to_db, storages, nows)} :
                /\ rows' = st.tbl.rows
                /\ seq' = st.tbl.seq
                /\ audit' = st.audit
                /\ batch' = [ran |-> TRUE,
                             files |-> [i \in 1..n |->
                                          [name |-> uploaded_files[i].name,
                                           failure |-> FailureOf(uploaded_files[i])]],
                             results |-> st.results,
                             errors |-> st.errors,
                             processed |-> st.processed,
                             saves |-> st.saves,
                             storages |-> [i \in 1..n |->
                                             IF st.saves[i] = "none" THEN "unused"
                                             ELSE storages[i]]]
      /\ last' = [op |-> "batch"]
      /\ records' = <<>>
      /\ confirm' = "absent"
      /\ UNCHANGED <<current_text, processing_stats, db_conn>>
      /\ UNCHANGED <<x_vars, fn_vars, ui_vars>>

(***************************************************************************)
(* History mode.  st.button returns True only in the run started by the    *)
(* click on it; st.checkbox returns the widget's value, which is kept only *)
(* while the widget is rendered in consecutive runs and is False when the  *)
(* widget is created.                                                      *)
(***************************************************************************)
Ids(listing) == {listing[i].id : i \in 1..Len(listing)}

\* pressed: st.button("Clear All History") returned True in the run; checked:
\* the confirmation checkbox was evaluated in the run and returned True
HistoryLast(op, clear_pressed, confirm_value, id, storage, executed, delete_all) ==
    [op |-> op, id |-> id, storage |-> storage, executed |-> executed,
     delete_all |-> delete_all,
     pressed |-> clear_pressed, checked |-> clear_pressed /\ confirm_value]

\* the guard of the DELETE with the confirmation checkbox left out
ClearConfirmed_ButtonOnly(clear_pressed, confirm_value) == clear_pressed

\* lines 865-866: if st.button("Clear All History"): if st.checkbox("Confirm ...")
ClearConfirmed(clear_pressed, confirm_value) == clear_pressed /\ confirm_value

HistoryPage(op, delete_pressed, sel, clear_pressed, confirm_value, storage) ==
    /\ batch' = [ran |-> FALSE]
    /\ UNCHANGED <<current_text, processing_stats, db_conn, seq>>
    /\ UNCHANGED <<x_vars, fn_vars, ui_vars>>
    /\ IF ~db_conn
       THEN /\ records' = <<>>
            /\ confirm' = "absent"
            /\ last' = HistoryLast(op, clear_pressed, confirm_value, 0, "unused", FALSE, FALSE)
            /\ UNCHANGED <<rows, audit>>
       ELSE \E listing \in ListQuery(rows) :
            IF listing = <<>>
            THEN /\ records' = <<>>
                 /\ confirm' = "absent"
                 /\ last' = HistoryLast(op, clear_pressed, confirm_value, 0, "unused", FALSE, FALSE)
                 /\ UNCHANGED <<rows, audit>>
            ELSE LET selected_id == IF sel \in Ids(listing) THEN sel ELSE listing[1].id
                 IN  IF delete_pressed
                     THEN /\ rows' = IF storage = "exec_fail" THEN rows
                                     ELSE DeleteOne(rows, selected_id)
                          /\ audit' = IF storage = "exec_fail" THEN audit
                                      ELSE [audit EXCEPT !.deleted = @ + 1]
                          /\ IF storage = "ok"
                             THEN records' \in ListQuery(rows')
                             ELSE records' = listing
                          /\ confirm' = "absent"
                          /\ last' = HistoryLast(op, clear_pressed, confirm_value, selected_id, storage,
                                                 storage # "exec_fail", FALSE)
                     ELSE IF ClearConfirmed(clear_pressed, confirm_value)
                     THEN /\ rows' = IF storage = "exec_fail" THEN rows ELSE DeleteAll(rows)
                          /\ audit' = IF storage = "exec_fail" THEN audit
                                      ELSE [audit EXCEPT !.deleted = @ + Cardinality(rows)]
                          /\ records' = IF storage = "ok" THEN <<>> ELSE listing
                          /\ confirm' = IF storage = "ok" THEN "absent" ELSE "checked"
                          /\ last' = HistoryLast(op, clear_pressed, confirm_value, 0, storage, FALSE, storage # "exec_fail")
                     ELSE /\ records' = listing
                          /\ confirm' = IF clear_pressed THEN "unchecked" ELSE "absent"
                          /\ last' = HistoryLast(op, clear_pressed, confirm_value, selected_id, "unused", FALSE, FALSE)
                          /\ UNCHANGED <<rows, audit>>

SelectableIds == {r.id : r \in rows} \cup Ids(records)

\* the History page is opened, or another record is selected in the selectbox
HistoryView ==
    \E sel \in SelectableIds \cup {0} :
        HistoryPage("view", FALSE, sel, FALSE, FALSE, "ok")

\* the Delete button is pressed
HistoryDelete ==
    /\ records # <<>>
    /\ \E sel \in Ids(records), storage \in Storage :
          HistoryPage("delete", TRUE, sel, FALSE, FALSE, storage)

\* the Clear All History button is pressed
HistoryClearPress ==
    /\ records # <<>>
    /\ \E sel \in Ids(records), storage \in StorageFor(confirm = "checked") :
          HistoryPage("clear_press", FALSE, sel, TRUE, confirm = "checked", storage)

\* the confirmation checkbox is ticked
HistoryConfirmTick ==
    /\ confirm = "unchecked"
    /\ \E sel \in Ids(records) :
          HistoryPage("confirm_tick", FALSE, sel, FALSE, TRUE, "ok")

Next ==
    \/ SingleExtract
    \/ BatchProcess
    \/ HistoryView
    \/ HistoryDelete
    \/ HistoryClearPress
    \/ HistoryConfirmTick

Spec == Init /\ [][Next]_vars

(***************************************************************************)
(* The History Store by itself: the statements the application executes on *)
(* the table, in any order.                                                *)
(***************************************************************************)
StoreInit ==
    /\ ExtractIdle
    /\ FnIdle
    /\ UiIdle
    /\ db_conn = TRUE
    /\ InitSession

StoreFrame ==
    /\ batch' = [ran |-> FALSE]
    /\ confirm' = "absent"
    /\ UNCHANGED <<current_text, processing_stats, db_conn>>
    /\ UNCHANGED <<x_vars, fn_vars, ui_vars>>

\* save(record)
StoreSave ==
    /\ Len(audit.assigned) < MaxSaves
    /\ \E name \in Names, d \in AppDocs, ocr_lang \in Languages, storage \in Storage :
       \E now \in TicksFor(TRUE, storage) :
       \E res \in {save_to_database(Table, name, ExtractionOf[d].text,
                                    BatchMetadata(ExtractionOf[d], ocr_lang), now, storage)} :
          /\ rows' = res.tbl.rows
          /\ seq' = res.tbl.seq
          /\ audit' = Audited(audit, res)
          /\ last' = [op |-> "save", id |-> res.id, ret |-> res.ret]
    /\ records' = <<>>
    /\ StoreFrame

\* deleteOne(id)
StoreDeleteOne ==
    /\ \E r \in rows :
          /\ rows' = DeleteOne(rows, r.id)
          /\ last' = [op |-> "deleteOne", id |-> r.id, ret |-> "none"]
    /\ audit' = [audit EXCEPT !.deleted = @ + 1]
    /\ records' = <<>>
    /\ UNCHANGED seq
    /\ StoreFrame

\* deleteAll()
StoreDeleteAll ==
    /\ rows # {}
    /\ rows' = DeleteAll(rows)
    /\ last' = [op |-> "deleteAll", id |-> 0, ret |-> "none"]
    /\ audit' = [audit EXCEPT !.deleted = @ + Cardinality(rows)]
    /\ records' = <<>>
    /\ UNCHANGED seq
    /\ StoreFrame

\* listAll()
StoreList ==
    /\ records' \in ListQuery(rows)
    /\ last' = [op |-> "listAll", id |-> 0, ret |-> "none"]
    /\ UNCHANGED <<rows, seq, audit>>
    /\ StoreFrame

StoreNext ==
    \/ StoreSave
    \/ StoreDeleteOne
    \/ StoreDeleteAll
    \/ StoreList

StoreSpec == StoreInit /\ [][StoreNext]_vars

(***************************************************************************)
(* search_in_text                                                          *)
(***************************************************************************)
\* search_in_text without the "if not query" test
search_in_text_NoEmptyCheck(text, query, case_sensitive) ==
    LET lines == SplitLines(text)
        search_query == IF case_sensitive THEN query ELSE LowerStr(query)
        search_line(i) == IF case_sensitive THEN lines[i] ELSE LowerStr(lines[i])
        hits == {i \in 1..Len(lines) : Contains(search_query, search_line(i))}
    IN  [k \in 1..Cardinality(hits) |-> <<Kth(hits, k), lines[Kth(hits, k)]>>]

\* the loop over enumerate(lines, 1) appends (i, line) for the lines whose
\* search_line holds search_query, in the order of the lines
search_in_text(text, query, case_sensitive) ==
    IF query = <<>> THEN <<>>
    ELSE LET lines == SplitLines(text)
             search_query == IF case_sensitive THEN query ELSE LowerStr(query)
             search_line(i) == IF case_sensitive THEN lines[i] ELSE LowerStr(lines[i])
             hits == {i \in 1..Len(lines) : Contains(search_query, search_line(i))}
         IN  [k \in 1..Cardinality(hits) |-> <<Kth(hits, k), lines[Kth(hits, k)]>>]

(***************************************************************************)
(* detect_document_format.  The regular expressions are matched as re      *)
(* matches them: in each of them the next character decides which item of  *)
(* the pattern can consume it, so a match at a position is found without   *)
(* backtracking.                                                           *)
(***************************************************************************)
\* \w
IsWordChar(c) == IsAlnum(c) \/ c = "_"

\* the position after \s* matched at position i
SkipSpaces(s, i) ==
    CHOOSE j \in i..(Len(s) + 1) :
        /\ \A k \in i..(j - 1) : IsSpace(s[k])
        /\ j = Len(s) + 1 \/ ~IsSpace(s[j])

\* the position after c? matched at position i
SkipOpt(s, i, c) == IF i <= Len(s) /\ s[i] = c THEN i + 1 ELSE i

\* the lower-case literal word matches at position i under re.IGNORECASE
LiteralAt(s, i, word) ==
    /\ i >= 1
    /\ i + Len(word) - 1 <= Len(s)
    /\ \A k \in 1..Len(word) : Lower(s[i + k - 1]) = word[k]

W_invoice == <<"i", "n", "v", "o", "i", "c", "e">>
W_total == <<"t", "o", "t", "a", "l">>
W_amount == <<"a", "m", "o", "u", "n", "t">>
W_due == <<"d", "u", "e">>

\* r'invoice\s*#?\s*:?\s*(\w+)' matches at position i
InvoicePatternAt(s, i) ==
    /\ LiteralAt(s, i, W_invoice)
    /\ LET j == SkipSpaces(s, SkipOpt(s, SkipSpaces(s, SkipOpt(s,
                    SkipSpaces(s, i + Len(W_invoice)), "#")), ":"))
       IN  j <= Len(s) /\ IsWordChar(s[j])

\* r'total\s*:?\s*\$' matches at position i
TotalPatternAt(s, i) ==
    /\ LiteralAt(s, i, W_total)
    /\ LET j == SkipSpaces(s, SkipOpt(s, SkipSpaces(s, i + Len(W_total)), ":"))
       IN  j <= Len(s) /\ s[j] = "$"

\* r'amount\s*due' matches at position i
AmountDuePatternAt(s, i) ==
    /\ LiteralAt(s, i, W_amount)
    /\ LiteralAt(s, SkipSpaces(s, i + Len(W_amount)), W_due)

\* any(re.search(pattern, text, re.IGNORECASE) for pattern in invoice_patterns)
InvoicePatternsMatch(text) ==
    \E i \in 1..Len(text) :
        \/ InvoicePatternAt(text, i)
        \/ TotalPatternAt(text, i)
        \/ AmountDuePatternAt(text, i)

\* sum(1 for line in lines if len(line.split()) >= 3 and any(c.isdigit() for c in line))
TableLines(text) ==
    LET lines == SplitLines(text)
    IN  Cardinality({k \in 1..Len(lines) :
                       /\ WordCount(lines[k]) >= 3
                       /\ \E i \in 1..Len(lines[k]) : lines[k][i] \in DigitChars})

IsUpper(c) == \E i \in 1..Len(UpperLetters) : UpperLetters[i] = c

\* [a-zA-Z\s]
IsLetterOrSpace(c) == (IsAlnum(c) /\ c \notin DigitChars) \/ IsSpace(c)

\* [_\s]
IsBlankOrUnderscore(c) == c = "_" \/ IsSpace(c)

\* the position after the longest run of [a-zA-Z\s] from position i
LettersEnd(s, i) ==
    CHOOSE j \in i..(Len(s) + 1) :
        /\ \A k \in i..(j - 1) : IsLetterOrSpace(s[k])
        /\ j = Len(s) + 1 \/ ~IsLetterOrSpace(s[j])

\* the position after the longest run of [_\s] from position i
BlanksEnd(s, i) ==
    CHOOSE j \in i..(Len(s) + 1) :
        /\ \A k \in i..(j - 1) : IsBlankOrUnderscore(s[k])
        /\ j = Len(s) + 1 \/ ~IsBlankOrUnderscore(s[j])

\* r'([A-Z][a-zA-Z\s]+):\s*[_\s]{2,}' matched at position i: the position of
\* the last character of the match, 0 if there is no match at i
FormFieldEnd(s, i) ==
    IF ~IsUpper(s[i]) THEN 0
    ELSE LET colon == LettersEnd(s, i + 1)
             end == BlanksEnd(s, colon + 1)
         IN  IF /\ colon >= i + 2
                /\ colon <= Len(s)
                /\ s[colon] = ":"
                /\ end - (colon + 1) >= 2
             THEN end - 1
             ELSE 0

\* len(re.findall(form_pattern, text)): the matches found from the left,
\* each search starting after the previous match
RECURSIVE FormFields(_, _)
FormFields(s, i) ==
    LET starts == {j \in i..Len(s) : FormFieldEnd(s, j) > 0}
    IN  IF starts = {} THEN 0
        ELSE 1 + FormFields(s, FormFieldEnd(s, Kth(starts, 1)) + 1)

\* formats_detected: the tags in the order in which they are appended
detect_document_format(text) ==
    (IF TableLines(text) >= 3 THEN <<[tag |-> "Table", n |-> TableLines(text)]>> ELSE <<>>)
    \o (IF InvoicePatternsMatch(text) THEN <<[tag |-> "Invoice", n |-> 0]>> ELSE <<>>)
    \o (IF FormFields(text, 1) >= 3 THEN <<[tag |-> "Form", n |-> FormFields(text, 1)]>>
        ELSE <<>>)

(***************************************************************************)
(* The pure functions by themselves: one call of one of them on arguments  *)
(* drawn from bounded sets.                                                *)
(***************************************************************************)
RECURSIVE Flatten(_)
Flatten(ss) == IF ss = <<>> THEN <<>> ELSE Head(ss) \o Flatten(Tail(ss))

\* the texts made of at most n pieces of the set chunks
TextsOf(chunks, n) == {<<>>} \cup {Flatten(ss) : ss \in SeqsUpTo(chunks, n)}

\* pieces of the texts scored: a one-letter word, a blank, a symbol, a word
\* of more than 15 letters, a run of symbols and a line end
ScoreChunks == {<<"a">>, <<" ">>, <<"#">>, Rep("b", 16), Rep("#", 8), <<NL>>}

ScoreTexts == TextsOf(ScoreChunks, MaxScoreChunks)

\* the example of the specification
T_hello == <<"H", "e", "l", "l", "o", "\n", "w", "o", "r", "l", "d", "\n", "H", "E", "L", "L", "O", " ", "a", "g", "a", "i", "n">>
Q_hello == <<"h", "e", "l", "l", "o">>

SearchTexts == TextsOf({<<"h">>, <<"H">>, <<"i">>, <<NL>>}, MaxSearchLen) \cup {T_hello}

SearchQueries == TextsOf({<<"h">>, <<"H">>, <<"i">>}, MaxQueryLen) \cup {Q_hello}

\* the example of the specification
T_invoice == <<"I", "n", "v", "o", "i", "c", "e", " ", "#", "1", "2", "3", "4", "\n", "T", "o", "t", "a", "l", ":", " ", "$", "5", "0", "0", ".", "0", "0", "\n", "A", "m", "o", "u", "n", "t", " ", "D", "u", "e">>

DetectChunks ==
    {<<"I", "n", "v", "o", "i", "c", "e">>, <<"I", "N", "V", "O", "I", "C", "E">>, <<"t", "o", "t", "a", "l">>, <<"A", "m", "o", "u", "n", "t">>, <<"d", "u", "e">>,
     <<" ">>, <<"#">>, <<":">>, <<"$">>, <<"7">>, <<".">>, <<NL>>}

DetectTexts == TextsOf(DetectChunks, MaxDetectChunks) \cup {T_invoice}

FnInit ==
    /\ ExtractIdle
    /\ FnIdle
    /\ UiIdle
    /\ db_conn = TRUE
    /\ InitSession

FnFrame ==
    /\ UNCHANGED <<x_vars, ui_vars>>
    /\ UNCHANGED <<current_text, processing_stats, db_conn, records, confirm, batch, last>>

Call_calculate_quality_score ==
    /\ fn_call = NoCall
    /\ \E text \in ScoreTexts :
          /\ fn_call' = [fn |-> "calculate_quality_score", text |-> text]
          /\ fn_result' = calculate_quality_score(text)
    /\ UNCHANGED <<rows, seq, audit>>
    /\ FnFrame

\* lines 701-709: the scored text is saved with its metadata, as a text
\* returned for a file of one page
SaveScoredText ==
    /\ rows = {}
    /\ fn_call.fn = "calculate_quality_score"
    /\ \E res \in {save_to_database(Table, "a.pdf", fn_call.text,
                                   [page_count |-> 1,
                                    word_count |-> WordCount(fn_call.text),
                                    character_count |-> Len(fn_call.text),
                                    language |-> "eng",
                                    processing_time |-> 0,
                                    quality_score |-> fn_result],
                                   0, "ok")} :
          /\ rows' = res.tbl.rows
          /\ seq' = res.tbl.seq
          /\ audit' = Audited(audit, res)
    /\ UNCHANGED fn_vars
    /\ FnFrame

Call_search_in_text ==
    /\ fn_call = NoCall
    /\ \E text \in SearchTexts, query \in SearchQueries, case_sensitive \in BOOLEAN :
          /\ fn_call' = [fn |-> "search_in_text", text |-> text, query |-> query,
                         case_sensitive |-> case_sensitive]
          /\ fn_result' = search_in_text(text, query, case_sensitive)
    /\ UNCHANGED <<rows, seq, audit>>
    /\ FnFrame

Call_detect_document_format ==
    /\ fn_call = NoCall
    /\ \E text \in DetectTexts :
          /\ fn_call' = [fn |-> "detect_document_format", text |-> text]
          /\ fn_result' = detect_document_format(text)
    /\ UNCHANGED <<rows, seq, audit>>
    /\ FnFrame

Call_preprocess_image ==
    /\ fn_call = NoCall
    /\ \E content \in PageTexts, enhance \in BOOLEAN, denoise \in BOOLEAN, failAt \in 0..4 :
          /\ fn_call' = [fn |-> "preprocess_image",
                         image |-> [content |-> content, ops |-> <<>>],
                         enhance |-> enhance, denoise |-> denoise, failAt |-> failAt]
          /\ fn_result' = preprocess_image([content |-> content, ops |-> <<>>],
                                           enhance, denoise, failAt)
    /\ UNCHANGED <<rows, seq, audit>>
    /\ FnFrame

FnNext ==
    \/ Call_calculate_quality_score
    \/ SaveScoredText
    \/ Call_search_in_text
    \/ Call_detect_document_format
    \/ Call_preprocess_image

FnSpec == FnInit /\ [][FnNext]_vars

(***************************************************************************)
(* Single PDF mode with its widgets: the file uploader, the Extract Text   *)
(* button, the Results panel with the preview text area and the exports.   *)
(* A widget keeps its value only while it is rendered in consecutive runs; *)
(* the text area, created with value=current_text and no key, is a new     *)
(* widget when current_text changes.  Save to Database is unchecked.       *)
(***************************************************************************)
\* text.split('\n\n')
RECURSIVE SplitParagraphs(_)
SplitParagraphs(s) ==
    IF \E i \in 1..(Len(s) - 1) : s[i] = NL /\ s[i + 1] = NL
    THEN LET i == CHOOSE i \in 1..(Len(s) - 1) :
                     /\ s[i] = NL /\ s[i + 1] = NL
                     /\ \A j \in 1..(i - 1) : ~(s[j] = NL /\ s[j + 1] = NL)
         IN  <<SubSeq(s, 1, i - 1)>> \o SplitParagraphs(SubSeq(s, i + 2, Len(s)))
    ELSE <<s>>

\* the non-empty trimmed paragraphs, in order
RECURSIVE Paragraphs(_)
Paragraphs(ps) ==
    IF ps = <<>> THEN <<>>
    ELSE (IF Strip(Head(ps)) # <<>> THEN <<Strip(Head(ps))>> ELSE <<>>)
         \o Paragraphs(Tail(ps))

\* export_to_word: the document's Source line, its Pages, Words and Quality
\* lines (metadata is truthy) and its paragraphs; doc.save raising makes the
\* function report the failure and return None
export_to_word(text, filename, metadata, fails) ==
    IF fails THEN NoExport
    ELSE [filename |-> filename,
          metadata |-> IF DOMAIN metadata = {} THEN metadata
                       ELSE [page_count |-> Get(metadata, "page_count", "N/A"),
                             word_count |-> Get(metadata, "word_count", "N/A"),
                             quality_score |-> Get(metadata, "quality_score", "N/A")],
          paragraphs |-> Paragraphs(SplitParagraphs(text))]

\* export_to_json: the data serialized by json.dumps
export_to_json(text, filename, metadata) ==
    [filename |-> filename, text |-> text, metadata |-> metadata]

\* lines 565-652: the Results column.  uploaded_file.name at line 631 is
\* evaluated outside any try: with no uploaded file it raises AttributeError,
\* which ends the run after the preview and the TXT button were rendered.
ResultsPanel(text, stats, file, edited, word_fails) ==
    IF text = <<>> THEN NoPanel
    ELSE IF file = NoFile
    THEN [rendered |-> TRUE, uncaught |-> TRUE,
          formats |-> detect_document_format(text), txt |-> edited,
          word |-> NoExport, json |-> NoExport, reported |-> FALSE]
    ELSE [rendered |-> TRUE, uncaught |-> FALSE,
          formats |-> detect_document_format(text), txt |-> edited,
          word |-> export_to_word(edited, file.name, stats, word_fails),
          json |-> export_to_json(edited, file.name, stats),
          reported |-> word_fails]

\* the user typed nothing into the preview before this run
NoEdit == <<"<no edit>">>

\* what the user types into the preview
EditTexts == {<<"x", " ", "y">>, <<"z">>}

\* the uploaded files of Single PDF mode (reading them succeeds)
SingleUploads == {up \in Uploads : up.read = "ok"}

\* the session after the left column of a run: the Extract Text handler ran
\* if the button was pressed and a file is uploaded
LeftColumn(extract_pressed, file) ==
    IF extract_pressed /\ file # NoFile
    THEN SingleScript(file.name, file.up, "eng", FALSE, "ok", 0, 1)
    ELSE [current_text |-> current_text, processing_stats |-> processing_stats,
          tbl |-> Table, audit |-> audit, last |-> [op |-> "single_view"]]

\* the value st.text_area returns in a run whose session text is text
PreviewValue(text, typed) ==
    IF typed # NoEdit THEN typed
    ELSE IF panel.rendered /\ text = current_text THEN edited_text
    ELSE text

\* one run of the script in Single PDF mode
SingleRun(extract_pressed, file, typed) ==
    /\ \E word_fails \in BOOLEAN :
       \E out \in {LeftColumn(extract_pressed, file)} :
       \E shown \in {ResultsPanel(out.current_text, out.processing_stats, file,
                                  PreviewValue(out.current_text, typed), word_fails)} :
          /\ current_text' = out.current_text
          /\ processing_stats' = out.processing_stats
          /\ last' = out.last
          /\ panel' = shown
          /\ edited_text' = shown.txt
    /\ mode' = "Single PDF"
    /\ uploaded_file' = file
    /\ UNCHANGED <<db_conn, rows, seq, records, confirm, batch, audit>>
    /\ UNCHANGED <<x_vars, fn_vars>>

\* a file is chosen in the uploader (replacing the one chosen before)
UploadFile ==
    /\ mode = "Single PDF"
    /\ \E name \in Names, up \in SingleUploads :
          SingleRun(FALSE, [name |-> name, up |-> up], NoEdit)

\* the uploaded file is removed from the uploader
RemoveFile ==
    /\ mode = "Single PDF"
    /\ uploaded_file # NoFile
    /\ SingleRun(FALSE, NoFile, NoEdit)

\* the Extract Text button is pressed
PressExtract ==
    /\ mode = "Single PDF"
    /\ uploaded_file # NoFile
    /\ SingleRun(TRUE, uploaded_file, NoEdit)

\* the preview text is edited
EditPreview ==
    /\ mode = "Single PDF"
    /\ panel.rendered
    /\ \E typed \in EditTexts : SingleRun(FALSE, uploaded_file, typed)

\* another mode is selected: the widgets of Single PDF mode are not rendered
LeaveSingle ==
    /\ mode = "Single PDF"
    /\ mode' = "Analytics"
    /\ uploaded_file' = NoFile
    /\ edited_text' = <<>>
    /\ panel' = NoPanel
    /\ last' = [op |-> "analytics"]
    /\ UNCHANGED <<current_text, processing_stats, db_conn, rows, seq, records,
                   confirm, batch, audit>>
    /\ UNCHANGED <<x_vars, fn_vars>>

\* Single PDF mode is selected again
EnterSingle ==
    /\ mode = "Analytics"
    /\ SingleRun(FALSE, NoFile, NoEdit)

SingleInit ==
    /\ ExtractIdle
    /\ FnIdle
    /\ UiIdle
    /\ db_conn = TRUE
    /\ InitSession

SingleNext ==
    \/ UploadFile
    \/ RemoveFile
    \/ PressExtract
    \/ EditPreview
    \/ LeaveSingle
    \/ EnterSingle

SingleSpec == SingleInit /\ [][SingleNext]_vars

(***************************************************************************)
(* Reading a returned text back: its lines, the banners found in them and  *)
(* what follows each banner.                                               *)
(***************************************************************************)
RuleLine == Rep("=", BannerWidth)

PageWord == <<"P", "A", "G", "E", " ">>

ErrorSuffix == <<" ", "-", " ", "E", "R", "R", "O", "R">>

IsHeaderLine(l) == Len(l) > Len(PageWord) /\ SubSeq(l, 1, Len(PageWord)) = PageWord

\* the line numbers at which a banner (rule, PAGE header, rule) starts
BannerStarts(lines) ==
    {i \in 1..(Len(lines) - 2) :
        /\ lines[i] = RuleLine
        /\ IsHeaderLine(lines[i + 1])
        /\ lines[i + 2] = RuleLine}

\* the lines between the k-th banner and the next one (or the end of the text)
BodyLines(lines, k) ==
    LET B == BannerStarts(lines)
        from == Kth(B, k) + 3
        to == IF k < Cardinality(B) THEN Kth(B, k + 1) - 1 ELSE Len(lines)
    IN  SubSeq(lines, from, to)

\* the header of page k as a literal, for the pages of the model's documents
HeaderOf(k, failed) ==
    PageWord \o <<(<<"1", "2", "3", "4", "5", "6", "7", "8", "9">>)[k]>>
    \o (IF failed THEN ErrorSuffix ELSE <<>>)

\* the pages of the call's document on which the recognition call fails
FailedPages == {k \in 1..Len(x_doc.pages) : ~x_engine \/ x_doc.pages[k] = RecFail}

\* C1: a document of N >= 1 pages of which the pages F fail is processed
\* completely and in order: N pages and no error are returned, the text
\* holds exactly one banner per page in ascending order, the banner of page
\* k is an ERROR banner iff k is in F, and every other page's banner is
\* followed by the page's trimmed text.
C1_PageFailureIsolated ==
    (x_pc = "done" /\ x_doc.raster = "ok" /\ Len(x_doc.pages) >= 1) =>
        LET N == Len(x_doc.pages)
            lines == SplitLines(x_result.text)
            B == BannerStarts(lines)
        IN  /\ x_result.pages = N
            /\ x_result.error.isNone
            /\ Cardinality(B) = N
            /\ \A k \in 1..N :
                  /\ lines[Kth(B, k) + 1] = HeaderOf(k, k \in FailedPages)
                  /\ BodyLines(lines, k) =
                        IF k \in FailedPages THEN <<<<>>, <<>>>>
                        ELSE <<<<>>>> \o SplitLines(Strip(x_doc.pages[k])) \o <<<<>>, <<>>>>

\* the example of the specification: three pages, the second one fails
C1_Witness ==
    /\ x_pc = "done"
    /\ x_engine
    /\ x_doc.raster = "ok"
    /\ x_doc.pages = <<T_word, RecFail, T_lines>>
    /\ x_result.pages = 3

\* C2: when rasterization fails the call returns empty text, zero pages and
\* a non-null error.
C2_RasterFailure ==
    (x_pc = "done" /\ x_doc.raster = "fail") =>
        /\ x_result.text = <<>>
        /\ x_result.pages = 0
        /\ ~x_result.error.isNone

C2_Witness ==
    /\ x_pc = "done"
    /\ x_doc.raster = "fail"
    /\ x_doc.msg = ""
    /\ x_result.pages = 0

\* C4: when the engine is unavailable (the recognition call fails on every
\* page) the call returns empty text, zero pages and a non-null error.
C4_EngineUnavailable ==
    (x_pc = "done" /\ ~x_engine /\ x_doc.raster = "ok" /\ Len(x_doc.pages) >= 1) =>
        /\ x_result.text = <<>>
        /\ x_result.pages = 0
        /\ ~x_result.error.isNone

(***************************************************************************)
(* Properties of the application and of the History Store.                 *)
(***************************************************************************)
StorageFailed(storage) == storage \in {"exec_fail", "commit_fail"}

\* C3: in Single PDF mode every document-level failure of the extraction is
\* shown as an error, and then the session's current text and processing
\* stats are unchanged and no record is saved.
C3_DocumentFailureSurfaced ==
    [][(last'.op = "single" /\ last'.failed) =>
          /\ last'.error_shown
          /\ current_text' = current_text
          /\ processing_stats' = processing_stats
          /\ rows' = rows
          /\ seq' = seq]_vars

\* C5: when a batch completes, every file was processed once, in upload
\* order, every failed file's name is in the error map and every
\* successfully extracted file's name is in the results.
C5_BatchAccounting ==
    batch.ran =>
        /\ batch.processed = [i \in 1..Len(batch.files) |-> i]
        /\ \A i \in 1..Len(batch.files) :
              IF batch.files[i].failure = "none"
              THEN batch.files[i].name \in DOMAIN batch.results
              ELSE batch.files[i].name \in DOMAIN batch.errors

\* C6: a storage failure during save_to_database makes the save return False
\* without raising, and the extraction still completes: in Single PDF mode
\* the session holds the text and the stats of this extraction, in Batch
\* mode the file is in the results and every file of the batch is processed.
C6_SaveFailureNotFatal ==
    /\ (last.op = "single" /\ StorageFailed(last.storage)) =>
          /\ last.save = "false"
          /\ ~last.uncaught
          /\ current_text = last.result.text
          /\ processing_stats.filename = last.name
          /\ processing_stats.page_count = last.result.pages
          /\ processing_stats.character_count = Len(last.result.text)
    /\ batch.ran =>
          \A i \in 1..Len(batch.files) :
              StorageFailed(batch.storages[i]) =>
                  /\ batch.saves[i] = "false"
                  /\ batch.files[i].name \in DOMAIN batch.results
                  /\ batch.processed = [j \in 1..Len(batch.files) |-> j]

\* a batch whose first file's save fails and whose second file is saved
C6_Witness ==
    /\ batch.ran
    /\ Len(batch.files) = 2
    /\ StorageFailed(batch.storages[1])
    /\ batch.saves = <<"false", "true">>

\* C7: the identifiers assigned by the saves are strictly increasing, so no
\* identifier is assigned twice, also after deletions; the records of the
\* store have distinct identifiers.
C7_IdsNeverReused ==
    /\ \A i, j \in 1..Len(audit.assigned) :
          i < j => audit.assigned[i] < audit.assigned[j]
    /\ \A r1, r2 \in rows : r1.id = r2.id => r1 = r2
    /\ \A r \in rows : \E i \in 1..Len(audit.assigned) : audit.assigned[i] = r.id

\* a save into a store from which every earlier record was deleted
C7_Witness ==
    /\ last.op = "save"
    /\ last.ret = "true"
    /\ last.id = 2
    /\ audit.deleted = 1
    /\ Cardinality(rows) = 1

\* the clock reading whose isoformat is the stored timestamp
ReadingOf(timestamp) == CHOOSE t \in Ticks : isoformat(t) = timestamp

\* the list query ran after saves that all succeeded and no deletion
ListedAfterSaves ==
    /\ last.op = "view"
    /\ db_conn
    /\ audit.kept = 0
    /\ audit.deleted = 0

\* C8 as claimed: after N successful saves and no deletion the history lists
\* exactly N records, ordered by timestamp descending, that is most recently
\* saved first.
C8_MostRecentlySavedFirst ==
    ListedAfterSaves =>
        /\ Len(records) = Len(audit.assigned)
        /\ \A i, j \in 1..Len(records) :
              i < j => ReadingOf(records[i].timestamp) >= ReadingOf(records[j].timestamp)
        /\ \A i, j \in 1..Len(records) : i < j => records[i].id > records[j].id

\* C8 as amended: after N successful saves and no deletion the history lists
\* exactly N records, each saved record once, ordered by the clock reading
\* of their save, latest reading first; of two records with different
\* readings the one saved later is first only if its reading is the later one.
C8_ListedByTimestamp ==
    ListedAfterSaves =>
        /\ Len(records) = Len(audit.assigned)
        /\ {records[i].id : i \in 1..Len(records)} =
              {audit.assigned[i] : i \in 1..Len(audit.assigned)}
        /\ \A i, j \in 1..Len(records) :
              i < j => ReadingOf(records[i].timestamp) >= ReadingOf(records[j].timestamp)

\* two records listed, saved at different clock readings
C8_Witness ==
    /\ ListedAfterSaves
    /\ Len(records) = 2
    /\ records[1].timestamp # records[2].timestamp

\* C9: after deleteOne(id), get(id) returns not-found and every other record
\* of the store is still present, unchanged.
C9_DeleteOneRemovesOnlyThat ==
    [][(last'.op = "delete" /\ last'.executed) =>
          /\ Fetch(rows', last'.id) = NotFound
          /\ \A r \in rows : r.id # last'.id => r \in rows']_vars

\* a record was deleted and another record is still stored
C9_Witness ==
    /\ last.op = "delete"
    /\ last.executed
    /\ rows # {}
    /\ Fetch(rows, last.id) = NotFound

\* C10: pressing Clear All History and then ticking the confirmation
\* checkbox leads to deleteAll being executed and the store being empty.
C10_ClearAllAfterConfirmation ==
    last.op = "confirm_tick" => (last.delete_all /\ rows = {})

\* C11: in every run of the History page the statement that deletes all
\* records runs only if the confirmation checkbox is evaluated and checked in
\* that run; a run started by pressing Clear All History in which the
\* checkbox is not checked leaves the store unchanged.
C11_NoDeleteAllWithoutConfirmation ==
    [][/\ (last'.op \in {"view", "delete", "clear_press", "confirm_tick"}
           /\ last'.delete_all) => last'.checked
       /\ (last'.op = "clear_press" /\ ~last'.checked) =>
              /\ rows' = rows
              /\ seq' = seq
              /\ ~last'.delete_all]_vars

\* Clear All History was pressed on a store that holds records, and it still
\* holds them
C11_Witness ==
    /\ last.op = "clear_press"
    /\ last.pressed
    /\ ~last.checked
    /\ rows # {}
    /\ confirm = "unchecked"

\* C12: every record enters the store with the counts of its own text (its
\* word_count is the number of whitespace-delimited tokens of its
\* extracted_text, its character_count the length of that text and its
\* quality_score the score of that text) and no step changes a record that
\* stays in the store; so the counts of every stored record are those of
\* its text in every reachable state.
C12_CountsNotStale ==
    [][/\ \A r \in rows' \ rows :
             /\ r.word_count = WordCount(r.extracted_text)
             /\ r.character_count = Len(r.extracted_text)
             /\ r.quality_score = calculate_quality_score(r.extracted_text)
       /\ \A r \in rows, r2 \in rows' : r.id = r2.id => r = r2]_vars

\* Single PDF mode saved a record with a non-empty text next to a record
\* with another text
C12_Witness ==
    /\ last.op = "single"
    /\ last.save = "true"
    /\ \E r, r2 \in rows :
          /\ r.id = MaxId(rows)
          /\ r.word_count > 0
          /\ r2.extracted_text # r.extracted_text

(***************************************************************************)
(* Properties of the pure functions.                                       *)
(***************************************************************************)
\* C13: calculate_quality_score returns a value in [0,100] for every text,
\* the empty text included, and every quality_score saved in the store is in
\* [0,100].
C13_ScoreInRange ==
    /\ fn_call.fn = "calculate_quality_score" =>
          (fn_result >= 0 /\ fn_result <= 100)
    /\ \A r \in rows : r.quality_score >= 0 /\ r.quality_score <= 100

\* the empty text was scored (20) and saved with its score
C13_Witness ==
    /\ fn_call.fn = "calculate_quality_score"
    /\ fn_call.text = <<>>
    /\ fn_result = 20
    /\ \E r \in rows : r.extracted_text = <<>> /\ r.quality_score = 20

\* the characters of a text that are alphanumeric or whitespace
GoodChars(t) == {i \in 1..Len(t) : IsAlnum(t[i]) \/ IsSpace(t[i])}

\* the three deduction conditions of the specification
TooShort(t) == Len(Strip(t)) < 10
LowRatio(t) == 10 * Cardinality(GoodChars(t)) < 7 * Max(Len(t), 1)
OddWords(t) ==
    /\ WordCount(t) >= 1
    /\ \/ WordChars(t) < 2 * WordCount(t)
       \/ WordChars(t) > 15 * WordCount(t)

\* C14: the score of a text is 100 minus 50 if its trimmed length is below
\* 10, minus 30 if the share of alphanumeric-or-whitespace characters is
\* below 0.7, minus 20 if it has a token and the mean token length is below
\* 2 or above 15, the three deductions adding up; a text with none of the
\* conditions scores 100 and a text of trimmed length below 10 at most 50.
C14_AdditiveDeductions ==
    fn_call.fn = "calculate_quality_score" =>
        LET t == fn_call.text
        IN  /\ fn_result = 100 - (IF TooShort(t) THEN 50 ELSE 0)
                               - (IF LowRatio(t) THEN 30 ELSE 0)
                               - (IF OddWords(t) THEN 20 ELSE 0)
            /\ (~TooShort(t) /\ ~LowRatio(t) /\ ~OddWords(t)) => fn_result = 100
            /\ TooShort(t) => fn_result <= 50

\* a text of 10 characters or more on which the ratio and the word-length
\* deductions are both made: 100 - 30 - 20
C14_Witness ==
    /\ fn_call.fn = "calculate_quality_score"
    /\ ~TooShort(fn_call.text)
    /\ LowRatio(fn_call.text)
    /\ OddWords(fn_call.text)
    /\ fn_result = 50

\* the query is in the line under the case policy
LineMatches(line, query, case_sensitive) ==
    IF case_sensitive THEN Contains(query, line)
    ELSE Contains(LowerStr(query), LowerStr(line))

\* C15: search_in_text returns the pairs (line number, line) of exactly the
\* lines that hold the query as a substring under the case policy, line
\* numbers from 1 and strictly ascending, each matching line once; an empty
\* query returns no match.
C15_SearchMatches ==
    fn_call.fn = "search_in_text" =>
        LET lines == SplitLines(fn_call.text)
            M == {i \in 1..Len(lines) :
                    LineMatches(lines[i], fn_call.query, fn_call.case_sensitive)}
        IN  IF fn_call.query = <<>> THEN fn_result = <<>>
            ELSE /\ Len(fn_result) = Cardinality(M)
                 /\ \A k \in 1..Len(fn_result) :
                       /\ fn_result[k][1] \in M
                       /\ fn_result[k][2] = lines[fn_result[k][1]]
                 /\ \A k \in 1..(Len(fn_result) - 1) :
                       fn_result[k][1] < fn_result[k + 1][1]

\* the example of the specification: "hello", case-insensitive, is found in
\* lines 1 and 3
C15_Witness ==
    /\ fn_call.fn = "search_in_text"
    /\ fn_call.text = T_hello
    /\ fn_call.query = Q_hello
    /\ ~fn_call.case_sensitive
    /\ fn_result = <<<<1, <<"H", "e", "l", "l", "o">>>>, <<3, <<"H", "E", "L", "L", "O", " ", "a", "g", "a", "i", "n">>>>>>

\* the returned formats hold the invoice tag
TaggedInvoice(formats) == \E k \in 1..Len(formats) : formats[k].tag = "Invoice"

\* C16: detect_document_format tags a text as invoice if and only if the
\* text holds, case-insensitively, an "invoice" label (followed by an
\* identifier or not), a "total" label followed by a currency symbol, or
\* the phrase "amount due".
C16_InvoiceTag ==
    fn_call.fn = "detect_document_format" =>
        (TaggedInvoice(fn_result) <=>
            \/ Contains(W_invoice, LowerStr(fn_call.text))
            \/ \E i \in 1..Len(fn_call.text) : TotalPatternAt(fn_call.text, i)
            \/ \E i \in 1..Len(fn_call.text) : AmountDuePatternAt(fn_call.text, i))

\* the transformations preprocess_image makes, in order
Transformations(denoise) ==
    <<"L", "contrast2.0", "sharpness1.5">> \o (IF denoise THEN <<"median3">> ELSE <<>>)

\* C17: preprocess_image returns an image in every case: the input image
\* when enhance is false; when enhance is true the image after grayscale,
\* contrast 2.0, sharpness 1.5 and, if denoise is true, the 3x3 median
\* filter, in that order; and if step k fails, the image after the steps
\* before k.
C17_PreprocessDegrades ==
    fn_call.fn = "preprocess_image" =>
        LET steps == Transformations(fn_call.denoise)
            made == IF ~fn_call.enhance THEN 0
                    ELSE IF fn_call.failAt \in 1..Len(steps) THEN fn_call.failAt - 1
                    ELSE Len(steps)
        IN  fn_result = [content |-> fn_call.image.content,
                         ops |-> SubSeq(steps, 1, made)]

\* the sharpness step failed: the image is the grayscale image with the
\* contrast enhanced
C17_Witness ==
    /\ fn_call.fn = "preprocess_image"
    /\ fn_call.enhance
    /\ fn_call.failAt = 3
    /\ fn_result.ops = <<"L", "contrast2.0">>

(***************************************************************************)
(* Properties of the interface.                                            *)
(***************************************************************************)
\* the number of files of the last batch whose save returned True
SavedInBatch == Cardinality({i \in 1..Len(batch.saves) : batch.saves[i] = "true"})

\* C18: when a batch completes, the entries of the results and of the error
\* map add up to the number of uploaded files, no file name is in both, and
\* when saving is enabled and every save succeeds the number of records
\* saved during the batch is the number of entries of the results; also when
\* two uploaded files have the same name.
C18_BatchSummary ==
    batch.ran =>
        /\ Cardinality(DOMAIN batch.results) + Cardinality(DOMAIN batch.errors)
              = Len(batch.files)
        /\ (DOMAIN batch.results) \cap (DOMAIN batch.errors) = {}
        /\ (SavedInBatch >= 1 /\ \A i \in 1..Len(batch.saves) : batch.saves[i] # "false")
              => SavedInBatch = Cardinality(DOMAIN batch.results)

\* C19: in Single PDF mode, whenever the session holds a non-empty
\* extraction result, the Results panel is rendered with its exports without
\* an uncaught error, and an export that is missing was reported.
C19_ResultsPanelRenders ==
    (mode = "Single PDF" /\ current_text # <<>>) =>
        /\ panel.rendered
        /\ ~panel.uncaught
        /\ panel.json # NoExport
        /\ panel.word = NoExport => panel.reported

\* the text of a Word export: its paragraphs, one after the other
RECURSIVE JoinParagraphs(_)
JoinParagraphs(ps) ==
    IF ps = <<>> THEN <<>> ELSE Head(ps) \o <<NL, NL>> \o JoinParagraphs(Tail(ps))

\* C20: every Word or JSON export of Single PDF mode carries the name of
\* the document from which the exported text was extracted, and the
\* word_count and character_count of its metadata are those of the exported
\* text; also after the preview was edited or another file was uploaded.
C20_ExportsConsistent ==
    /\ panel.json # NoExport =>
          /\ panel.json.filename = processing_stats.filename
          /\ panel.json.metadata.word_count = WordCount(panel.json.text)
          /\ panel.json.metadata.character_count = Len(panel.json.text)
    /\ panel.word # NoExport =>
          /\ panel.word.filename = processing_stats.filename
          /\ panel.word.metadata.word_count =
                WordCount(JoinParagraphs(panel.word.paragraphs))

\* C21: the score recorded for an extraction that returned at least one
\* page is computed on a text whose trimmed length is at least 10, so it is
\* one of 100, 80, 70 and 50; a score below 50 is recorded only for an
\* extraction with zero pages.
C21_BannersPreventLengthDeduction ==
    x_pc = "recorded" =>
        /\ processing_stats.page_count >= 1 =>
              /\ Len(Strip(current_text)) >= 10
              /\ processing_stats.quality_score \in {100, 80, 70, 50}
        /\ processing_stats.quality_score < 50 => processing_stats.page_count = 0

\* a page of prose was extracted and recorded with the score 100
C21_Witness ==
    /\ x_pc = "recorded"
    /\ x_doc.pages = <<T_prose>>
    /\ processing_stats.page_count = 1
    /\ processing_stats.quality_score = 100

====
